---- MODULE Spec2Model ----
(***************************************************************************)
(* A model of PackedLeaf<T> (src/src/packed_leaf.rs): a 32-byte chunk that *)
(* packs up to T::tree_hash_packing_factor() fixed-size values, with a     *)
(* length counter.  Every method is an operator from the receiver and its  *)
(* arguments to the receiver after the call, the returned value and the    *)
(* outcome (Ok, an Error value, or a panic); every action applies one      *)
(* method to the leaf the caller currently holds.  A run is an arbitrary   *)
(* sequence of calls that ends with one observed call, whose arguments,    *)
(* receiver and outcome are recorded in `last`; a panic always ends it.    *)
(***************************************************************************)
EXTENDS Integers, Sequences, FiniteSets, TLC

\* ------------------------------------------------------------------------
\* Bounds of the model
\* ------------------------------------------------------------------------
MaxVal == 1
MaxIndex == 5
MaxKey == 4
MaxPrefix == 2
MaxUpdates == 2

\* ------------------------------------------------------------------------
\* Constants of the program
\* ------------------------------------------------------------------------
BYTES_PER_CHUNK == 32

\* The value types the leaf is instantiated with.
Types == {"u64", "u128", "U256", "H256"}

tree_hash_packing_factor(t) ==
  CASE t = "u64" -> 4
    [] t = "u128" -> 2
    [] t = "U256" -> 1
    [] t = "H256" -> 1

\* size_of::<T>(), the stride of the typed pointer used by get
size_of(t) ==
  CASE t = "u64" -> 8
    [] t = "u128" -> 16
    [] t = "U256" -> 32
    [] t = "H256" -> 32

\* align_of::<T>(): the integers are aligned to their limbs, H256 is a byte
\* array.  PackedLeaf<T> itself (a byte array, a u8 and a PhantomData) has
\* alignment 1, so its buffer may lie at any address.
align_of(t) ==
  CASE t = "u64" -> 8
    [] t = "u128" -> 16
    [] t = "U256" -> 8
    [] t = "H256" -> 1

\* Two-byte patterns: the low byte is v, the second byte is 2 * v.
Values == {v + 512 * v : v \in 0..MaxVal}

Indices == 0..MaxIndex

\* ------------------------------------------------------------------------
\* Values of the model
\* ------------------------------------------------------------------------
NoLeaf == [hash |-> <<>>, length |-> 0]

NoUpdates == [g \in {} |-> 0]

Ok == [kind |-> "Ok", sub_index |-> 0, len |-> 0]

Panic == [kind |-> "Panic", sub_index |-> 0, len |-> 0]

PackedLeafOutOfBounds(s, l) ==
  [kind |-> "PackedLeafOutOfBounds", sub_index |-> s, len |-> l]

PackedLeafFull(l) == [kind |-> "PackedLeafFull", sub_index |-> 0, len |-> l]

None == [kind |-> "None", bytes |-> <<>>]

Some(b) == [kind |-> "Some", bytes |-> b]

\* a trap on the dereference of a misaligned pointer
Misaligned == [kind |-> "Misaligned", bytes |-> <<>>]

\* Hash256::zero()
zero == [k \in 1..BYTES_PER_CHUNK |-> 0]

\* value.as_ssz_bytes(): the little-endian bytes of a fixed-width integer
RECURSIVE le_bytes(_, _)
le_bytes(v, n) ==
  IF n = 0 THEN <<>> ELSE <<v % 256>> \o le_bytes(v \div 256, n - 1)

as_ssz_bytes(v, t) == le_bytes(v, size_of(t))

\* dst[start .. start + Len(src)].copy_from_slice(src), offsets from 0
copy_from_slice(dst, start, src) ==
  [k \in 1..Len(dst) |->
     IF k > start /\ k <= start + Len(src) THEN src[k - start] ELSE dst[k]]

\* ------------------------------------------------------------------------
\* The methods of PackedLeaf<T>
\* ------------------------------------------------------------------------
length(self) == self.length

value_len(t) == BYTES_PER_CHUNK \div tree_hash_packing_factor(t)

\* get reads size_of::<T>() bytes at the typed offset base_ptr.add(index),
\* through a reference &T made from a pointer into the byte buffer.  When
\* the buffer's address is no multiple of align_of::<T>() that reference is
\* undefined behaviour: the build either reads the bytes or traps.  The
\* result is the set of outcomes over the addresses the leaf may have.
get(self, index, t) ==
  IF index >= length(self)
  THEN {None}
  ELSE LET elem == Some(SubSeq(self.hash, index * size_of(t) + 1,
                               (index + 1) * size_of(t)))
       IN IF align_of(t) = 1 THEN {elem} ELSE {elem, Misaligned}

tree_hash(self) == self.hash

empty == [hash |-> zero, length |-> 0]

single(value, t) ==
  [hash |-> copy_from_slice(zero, 0, as_ssz_bytes(value, t)), length |-> 1]

RECURSIVE repeat_loop(_, _, _, _, _)
repeat_loop(hash, i, n, value, t) ==
  IF i >= n THEN hash
  ELSE repeat_loop(copy_from_slice(hash, i * value_len(t),
                                   as_ssz_bytes(value, t)),
                   i + 1, n, value, t)

\* the assertion n <= packing_factor fails with a panic
repeat(value, n, t) ==
  IF ~(n <= tree_hash_packing_factor(t))
  THEN [ret |-> NoLeaf, res |-> Panic]
  ELSE [ret |-> [hash |-> repeat_loop(zero, 0, n, value, t), length |-> n],
        res |-> Ok]

\* Variants of insert_mut, each with one slip:
\*   "strict_bound" tests sub_index > BYTES_PER_CHUNK instead of >=
\*   "error_past"   returns an Error past the frontier instead of panicking
\*   "always_grow"  increments length on an overwrite too
\*   "no_frontier"  returns Ok past the frontier instead of panicking
insert_mut_with(self, index, value, t, slip) ==
  LET sub_index == index * value_len(t)
      out == IF slip = "strict_bound"
             THEN sub_index > BYTES_PER_CHUNK
             ELSE sub_index >= BYTES_PER_CHUNK
  IN
  IF out
  THEN [self |-> self, res |-> PackedLeafOutOfBounds(sub_index, length(self))]
  ELSE IF sub_index + value_len(t) > BYTES_PER_CHUNK
          \/ Len(as_ssz_bytes(value, t)) # value_len(t)
  THEN [self |-> self, res |-> Panic]
  ELSE LET hash == copy_from_slice(self.hash, sub_index,
                                   as_ssz_bytes(value, t))
       IN IF index = length(self)
          THEN [self |-> [hash |-> hash, length |-> self.length + 1],
                res |-> Ok]
          ELSE IF index > length(self)
          THEN [self |-> [hash |-> hash, length |-> self.length],
                res |-> CASE slip = "error_past" ->
                               PackedLeafOutOfBounds(sub_index, length(self))
                          [] slip = "no_frontier" -> Ok
                          [] OTHER -> Panic]
          ELSE [self |-> [hash |-> hash,
                          length |-> IF slip = "always_grow"
                                     THEN self.length + 1 ELSE self.length],
                res |-> Ok]

insert_mut_strict_bound(self, index, value, t) ==
  insert_mut_with(self, index, value, t, "strict_bound")

insert_mut_error_past(self, index, value, t) ==
  insert_mut_with(self, index, value, t, "error_past")

insert_mut_always_grow(self, index, value, t) ==
  insert_mut_with(self, index, value, t, "always_grow")

insert_mut_no_frontier(self, index, value, t) ==
  insert_mut_with(self, index, value, t, "no_frontier")

\* The write to the buffer precedes the test of the index against length,
\* so a panicking call has already written the slot.
insert_mut(self, index, value, t) ==
  LET sub_index == index * value_len(t) IN
  IF sub_index >= BYTES_PER_CHUNK
  THEN [self |-> self, res |-> PackedLeafOutOfBounds(sub_index, length(self))]
  ELSE IF sub_index + value_len(t) > BYTES_PER_CHUNK
          \/ Len(as_ssz_bytes(value, t)) # value_len(t)
  THEN [self |-> self, res |-> Panic]
  ELSE LET hash == copy_from_slice(self.hash, sub_index,
                                   as_ssz_bytes(value, t))
       IN IF index = length(self)
          THEN [self |-> [hash |-> hash, length |-> self.length + 1],
                res |-> Ok]
          ELSE IF index > length(self)
          THEN [self |-> [hash |-> hash, length |-> self.length],
                res |-> Panic]
          ELSE [self |-> [hash |-> hash, length |-> self.length], res |-> Ok]

\* Variant of insert_at_index that edits the receiver instead of a clone.
insert_at_index_in_place(self, index, value, t) ==
  LET r == insert_mut(self, index, value, t) IN
  [self |-> r.self,
   ret |-> IF r.res = Ok THEN r.self ELSE NoLeaf,
   res |-> r.res]

insert_at_index(self, index, value, t) ==
  LET r == insert_mut(self, index, value, t) IN
  [self |-> self,
   ret |-> IF r.res = Ok THEN r.self ELSE NoLeaf,
   res |-> r.res]

push(self, value, t) ==
  IF length(self) >= tree_hash_packing_factor(t)
  THEN [self |-> self, res |-> PackedLeafFull(length(self))]
  ELSE insert_mut(self, length(self), value, t)

\* UpdateMap::for_each_range: the keys of [start, end) in ascending order
RECURSIVE ascending(_)
ascending(S) ==
  IF S = {} THEN <<>>
  ELSE LET m == CHOOSE x \in S : \A y \in S : x <= y
       IN <<m>> \o ascending(S \ {m})

for_each_range(updates, start, end) ==
  ascending({g \in DOMAIN updates : start <= g /\ g < end})

RECURSIVE update_loop(_, _, _, _)
update_loop(updated, keys, updates, t) ==
  IF keys = <<>> THEN [ret |-> updated, res |-> Ok]
  ELSE LET index == Head(keys)
           r == insert_mut(updated, index % tree_hash_packing_factor(t),
                           updates[index], t)
       IN IF r.res = Ok
          THEN update_loop(r.self, Tail(keys), updates, t)
          ELSE [ret |-> NoLeaf, res |-> r.res]

\* Variant of update whose window includes its end, prefix + packing_factor.
update_inclusive_end(self, prefix, updates, t) ==
  LET packing_factor == tree_hash_packing_factor(t)
      start == prefix
      end == prefix + packing_factor + 1
      r == update_loop(self, for_each_range(updates, start, end), updates, t)
  IN [self |-> self, ret |-> r.ret, res |-> r.res]

\* Variant of update that writes slot index - prefix instead of
\* index % packing_factor.
RECURSIVE update_loop_from_prefix(_, _, _, _, _)
update_loop_from_prefix(updated, keys, updates, prefix, t) ==
  IF keys = <<>> THEN [ret |-> updated, res |-> Ok]
  ELSE LET index == Head(keys)
           r == insert_mut(updated, index - prefix, updates[index], t)
       IN IF r.res = Ok
          THEN update_loop_from_prefix(r.self, Tail(keys), updates, prefix, t)
          ELSE [ret |-> NoLeaf, res |-> r.res]

update_from_prefix(self, prefix, updates, t) ==
  LET packing_factor == tree_hash_packing_factor(t)
      start == prefix
      end == prefix + packing_factor
      r == update_loop_from_prefix(self, for_each_range(updates, start, end),
                                   updates, prefix, t)
  IN [self |-> self, ret |-> r.ret, res |-> r.res]

update(self, prefix, updates, t) ==
  LET packing_factor == tree_hash_packing_factor(t)
      start == prefix
      end == prefix + packing_factor
      r == update_loop(self, for_each_range(updates, start, end), updates, t)
  IN [self |-> self, ret |-> r.ret, res |-> r.res]

\* ------------------------------------------------------------------------
\* State
\* ------------------------------------------------------------------------
VARIABLES
  T,        \* the value type the leaf is instantiated with
  leaf,     \* the leaf the caller holds
  last,     \* the observed call: arguments, receiver before and after, outcome
  pushed    \* the values pushed since empty(), while only push and reads ran

vars == <<T, leaf, last, pushed>>

Call(op) ==
  [op |-> op, index |-> 0, value |-> 0, n |-> 0, prefix |-> 0,
   updates |-> NoUpdates, pre |-> NoLeaf, post |-> NoLeaf, ret |-> NoLeaf,
   res |-> Ok, got |-> None, chunk |-> <<>>]

Idle == Call("none")

NoTrace == [on |-> FALSE, values |-> <<>>]

\* the run goes on until a call is observed; a panic ends the program
Running == last = Idle

Observe(call) ==
  \E observe \in BOOLEAN :
    /\ call.res = Panic => observe
    /\ last' = IF observe THEN call ELSE Idle

UpdateMaps ==
  UNION {[S -> Values] :
           S \in {S \in SUBSET (0..MaxKey) : Cardinality(S) <= MaxUpdates}}

Init ==
  /\ T \in Types
  /\ leaf = empty
  /\ last = Idle
  /\ pushed = [on |-> TRUE, values |-> <<>>]

Empty ==
  /\ Running
  /\ leaf' = empty
  /\ Observe([Call("empty") EXCEPT !.pre = leaf, !.post = empty,
                !.ret = empty])
  /\ pushed' = [on |-> TRUE, values |-> <<>>]
  /\ UNCHANGED T

Single ==
  /\ Running
  /\ \E value \in Values :
       /\ leaf' = single(value, T)
       /\ Observe([Call("single") EXCEPT !.value = value, !.pre = leaf,
                     !.post = single(value, T), !.ret = single(value, T)])
  /\ pushed' = NoTrace
  /\ UNCHANGED T

Repeat ==
  /\ Running
  /\ \E value \in Values, n \in 0..(tree_hash_packing_factor(T) + 1) :
       LET r == repeat(value, n, T) IN
       /\ leaf' = IF r.res = Ok THEN r.ret ELSE leaf
       /\ Observe([Call("repeat") EXCEPT !.value = value, !.n = n,
                     !.pre = leaf, !.post = leaf', !.ret = r.ret,
                     !.res = r.res])
  /\ pushed' = NoTrace
  /\ UNCHANGED T

Get ==
  /\ Running
  /\ \E index \in Indices :
       \E got \in get(leaf, index, T) :
         Observe([Call("get") EXCEPT !.index = index, !.pre = leaf,
                    !.post = leaf, !.got = got,
                    !.res = IF got = Misaligned THEN Panic ELSE Ok])
  /\ UNCHANGED <<T, leaf, pushed>>

TreeHash ==
  /\ Running
  /\ Observe([Call("tree_hash") EXCEPT !.pre = leaf, !.post = leaf,
                !.chunk = tree_hash(leaf)])
  /\ UNCHANGED <<T, leaf, pushed>>

InsertMut ==
  /\ Running
  /\ \E index \in Indices, value \in Values :
       LET r == insert_mut(leaf, index, value, T) IN
       /\ leaf' = r.self
       /\ Observe([Call("insert_mut") EXCEPT !.index = index,
                     !.value = value, !.pre = leaf, !.post = r.self,
                     !.res = r.res])
  /\ pushed' = NoTrace
  /\ UNCHANGED T

\* The caller goes on with the returned leaf, as the tree above the leaf does.
InsertAtIndex ==
  /\ Running
  /\ \E index \in Indices, value \in Values :
       LET r == insert_at_index(leaf, index, value, T) IN
       /\ leaf' = IF r.res = Ok THEN r.ret ELSE r.self
       /\ Observe([Call("insert_at_index") EXCEPT !.index = index,
                     !.value = value, !.pre = leaf, !.post = r.self,
                     !.ret = r.ret, !.res = r.res])
  /\ pushed' = NoTrace
  /\ UNCHANGED T

Push ==
  /\ Running
  /\ \E value \in Values :
       LET r == push(leaf, value, T) IN
       /\ leaf' = r.self
       /\ Observe([Call("push") EXCEPT !.value = value, !.pre = leaf,
                     !.post = r.self, !.res = r.res])
       /\ pushed' = IF pushed.on /\ r.res = Ok
                    THEN [pushed EXCEPT !.values = Append(@, value)]
                    ELSE pushed
  /\ UNCHANGED T

Update ==
  /\ Running
  /\ \E prefix \in 0..MaxPrefix, updates \in UpdateMaps :
       LET r == update(leaf, prefix, updates, T) IN
       /\ leaf' = IF r.res = Ok THEN r.ret ELSE r.self
       /\ Observe([Call("update") EXCEPT !.prefix = prefix,
                     !.updates = updates, !.pre = leaf, !.post = r.self,
                     !.ret = r.ret, !.res = r.res])
  /\ pushed' = NoTrace
  /\ UNCHANGED T

Next ==
  \/ Empty
  \/ Single
  \/ Repeat
  \/ Get
  \/ TreeHash
  \/ InsertMut
  \/ InsertAtIndex
  \/ Push
  \/ Update

Spec == Init /\ [][Next]_vars

TypeOK ==
  /\ T \in Types
  /\ Len(leaf.hash) = BYTES_PER_CHUNK
  /\ \A k \in 1..BYTES_PER_CHUNK : leaf.hash[k] \in 0..255
  /\ leaf.length \in Nat

\* ------------------------------------------------------------------------
\* Properties
\* ------------------------------------------------------------------------
packing_factor == tree_hash_packing_factor(T)

\* the bytes of slot i of a chunk
Slot(hash, i) == SubSeq(hash, i * value_len(T) + 1, (i + 1) * value_len(T))

\* slot i of leaf l is populated and holds the serialization of v
Holds(l, i, v) == i < length(l) /\ Slot(l.hash, i) = as_ssz_bytes(v, T)

\* every byte of the chunk at offset >= length * value_len is zero
ZeroPadded(l) ==
  \A k \in 1..BYTES_PER_CHUNK : k > length(l) * value_len(T) => l.hash[k] = 0

\* the pending writes of the observed update inside its window
Window == {g \in DOMAIN last.updates :
             last.prefix <= g /\ g < last.prefix + packing_factor}

\* the n-th smallest element of S, n from 1
Nth(S, n) == CHOOSE x \in S : Cardinality({y \in S : y < x}) = n - 1

InOrder(S) == [n \in 1..Cardinality(S) |-> Nth(S, n)]

\* folding insert_at_index(g % packing_factor, value) over the writes `keys`
RECURSIVE FoldInsertAtIndex(_, _, _)
FoldInsertAtIndex(l, keys, updates) ==
  IF keys = <<>> THEN [ret |-> l, res |-> Ok]
  ELSE LET g == Head(keys)
           r == insert_at_index(l, g % packing_factor, updates[g], T)
       IN IF r.res = Ok
          THEN FoldInsertAtIndex(r.ret, Tail(keys), updates)
          ELSE [ret |-> NoLeaf, res |-> r.res]

\* C1: starting from empty(), after k successful pushes length = k, get(j)
\* returns the j-th pushed value for j < k and None for j >= k; a push onto
\* fewer than packing_factor values succeeds and a push onto packing_factor
\* values fails with PackedLeafFull{len: packing_factor}.
C1_PushFromEmpty ==
  pushed.on =>
    /\ length(leaf) = Len(pushed.values)
    /\ Len(pushed.values) <= packing_factor
    /\ last.op = "push" =>
         last.res = IF length(last.pre) < packing_factor
                    THEN Ok
                    ELSE PackedLeafFull(packing_factor)
    /\ last.op = "get" =>
         last.got = IF last.index < Len(pushed.values)
                    THEN Some(as_ssz_bytes(pushed.values[last.index + 1], T))
                    ELSE None

\* C2: insert_at_index and update leave the receiver's buffer and length as
\* they were, whatever the call returns, so every get on it is unchanged.
C2_CopyOnWrite ==
  last.op \in {"insert_at_index", "update"} =>
    /\ last.post = last.pre
    /\ \A j \in Indices : get(last.post, j, T) = get(last.pre, j, T)
    /\ tree_hash(last.post) = tree_hash(last.pre)

C2_Witness ==
  /\ last.op = "insert_at_index"
  /\ last.res = Ok
  /\ last.ret.hash # last.pre.hash
  /\ last.index < length(last.pre)

\* C3: update(prefix, updates) has the outcome of folding
\* insert_at_index(g % packing_factor, value) over the pending writes of
\* [prefix, prefix + packing_factor) in ascending g, and of no other write.
C3_BatchEquivalence ==
  last.op = "update" =>
    LET f == FoldInsertAtIndex(last.pre, InOrder(Window), last.updates)
    IN /\ last.res = f.res
       /\ last.ret = f.ret

C3_Witness ==
  /\ last.op = "update"
  /\ last.res = Ok
  /\ T = "u64"
  /\ Cardinality(Window) = 1
  /\ Cardinality(DOMAIN last.updates) = 2
  /\ last.ret # last.pre

\* C4: after insert_mut(i, v) returns Ok, get(i) is byte-equal to v.
C4_RoundTrip ==
  (last.op = "insert_mut" /\ last.res = Ok) =>
    \A got \in get(last.post, last.index, T) :
      got = Some(as_ssz_bytes(last.value, T))

\* C5: insert_mut(index, v) with index * value_len >= BYTES_PER_CHUNK returns
\* PackedLeafOutOfBounds{sub_index: index * value_len, len: length} and
\* leaves the buffer and the length unchanged.
C5_OutOfBounds ==
  (last.op = "insert_mut"
     /\ last.index * value_len(T) >= BYTES_PER_CHUNK) =>
    /\ last.res = PackedLeafOutOfBounds(last.index * value_len(T),
                                        length(last.pre))
    /\ last.post = last.pre

C5_Witness ==
  /\ last.op = "insert_mut"
  /\ last.index * value_len(T) = BYTES_PER_CHUNK
  /\ length(last.pre) > 0
  /\ last.res.kind = "PackedLeafOutOfBounds"

\* C6 as stated: an insert at an index strictly greater than the length
\* always panics.
C6_Original ==
  (last.op \in {"insert_mut", "insert_at_index"}
     /\ last.index > length(last.pre)) =>
    last.res = Panic

\* C6 as amended: an insert at an index strictly greater than the length
\* panics when the slot lies inside the chunk (index * value_len <
\* BYTES_PER_CHUNK); past the chunk it returns PackedLeafOutOfBounds.  It
\* never returns success.
C6_PastFrontier ==
  (last.op \in {"insert_mut", "insert_at_index"}
     /\ last.index > length(last.pre)) =>
    last.res = IF last.index * value_len(T) < BYTES_PER_CHUNK
               THEN Panic
               ELSE PackedLeafOutOfBounds(last.index * value_len(T),
                                          length(last.pre))

C6_Witness ==
  /\ last.op = "insert_at_index"
  /\ last.index > length(last.pre)
  /\ length(last.pre) > 0
  /\ last.res = Panic

\* C7: for n <= packing_factor, repeat(v, n) has length n, get(i) is v for
\* i < n and None for i >= n, slot i of tree_hash() is v's serialization for
\* i < n and every byte of tree_hash() at offset >= n * value_len is zero.
C7_PackingIdentity ==
  (last.op = "repeat" /\ last.n <= packing_factor) =>
    /\ last.res = Ok
    /\ length(last.ret) = last.n
    /\ \A i \in Indices :
         \A got \in get(last.ret, i, T) :
           got = IF i < last.n
                 THEN Some(as_ssz_bytes(last.value, T))
                 ELSE None
    /\ \A i \in 0..(last.n - 1) :
         Slot(tree_hash(last.ret), i) = as_ssz_bytes(last.value, T)
    /\ \A k \in 1..BYTES_PER_CHUNK :
         k > last.n * value_len(T) => tree_hash(last.ret)[k] = 0

\* C8 as stated: for every prefix, a pending write at g in the window is
\* applied to slot g - prefix of the result.
C8_Original ==
  (last.op = "update" /\ last.res = Ok) =>
    \A g \in Window : Holds(last.ret, g - last.prefix, last.updates[g])

\* C8 as amended: a pending write at g in the window is applied to slot
\* g % packing_factor of the result, which is slot g - prefix when prefix is
\* a multiple of packing_factor.
C8_SlotOfWrite ==
  (last.op = "update" /\ last.res = Ok) =>
    \A g \in Window :
      /\ Holds(last.ret, g % packing_factor, last.updates[g])
      /\ last.prefix % packing_factor = 0 =>
           Holds(last.ret, g - last.prefix, last.updates[g])

C8_Witness ==
  /\ last.op = "update"
  /\ last.res = Ok
  /\ last.prefix > 0
  /\ last.prefix % packing_factor = 0
  /\ packing_factor > 1
  /\ \E g \in Window : g > last.prefix /\ last.updates[g] # 0

\* C9: 0 <= length <= packing_factor in every leaf; a successful insert_mut
\* adds 1 to length when index = length and nothing when index < length; no
\* operation decreases length.
C9_LengthInvariant ==
  /\ 0 <= length(leaf) /\ length(leaf) <= packing_factor
  /\ (last.op = "insert_mut" /\ last.res = Ok) =>
       /\ last.index <= length(last.pre)
       /\ length(last.post) = IF last.index = length(last.pre)
                              THEN length(last.pre) + 1
                              ELSE length(last.pre)
  /\ last.op \in {"push", "insert_mut", "insert_at_index", "update"} =>
       /\ length(last.post) >= length(last.pre)
       /\ length(last.post) <= packing_factor
  /\ (last.op \in {"insert_at_index", "update"} /\ last.res = Ok) =>
       /\ length(last.ret) >= length(last.pre)
       /\ length(last.ret) <= packing_factor

C9_Witness ==
  /\ last.op = "insert_mut"
  /\ last.res = Ok
  /\ last.index + 1 < length(last.pre)
  /\ last.post # last.pre

\* C10: in every leaf reached by calls that returned, every byte at offset
\* >= length * value_len is zero.
C10_ZeroPadding ==
  last.res # Panic =>
    /\ ZeroPadded(leaf)
    /\ last.op \in {"single", "repeat", "insert_at_index", "update"}
         /\ last.res = Ok => ZeroPadded(last.ret)
    /\ last.op # "none" => ZeroPadded(last.post)

C10_Witness ==
  /\ last.op = "update"
  /\ last.res = Ok
  /\ length(last.ret) > length(last.pre)
  /\ length(last.ret) < packing_factor
  /\ \E g \in Window : last.updates[g] # 0
====
